---- MODULE Spec2Model ----
(***************************************************************************)
(* Model of reportdemo.py: CustomReport.getReport and the four REST calls  *)
(* it sequences (token grant, job start, job status polling, file fetch),  *)
(* followed by the base64/UTF-8 decoding of the payload and the write of   *)
(* the output file.                                                        *)
(*                                                                         *)
(* Text is a sequence of Unicode code points, bytes are 0..255 and a       *)
(* base64 string is a sequence of alphabet indices 0..63 with Pad for '='. *)
(***************************************************************************)
EXTENDS Integers, Sequences, FiniteSets, TLC

\* ------------------------------------------------------------------ bounds
\* Longest text payload drawn for the file endpoint.
MaxTextLen == 2

\* --------------------------------------------------------- program constants
\* the budget one over
NumTriesLong == 10 + 1
\* the budget one short
NumTriesShort == 10 - 1
\* numTries = 10 (reportdemo.py:113)
NumTries == 10
\* time.sleep(60) (reportdemo.py:117)
SleepInterval == 60
\* index of '=' in the base64 symbols
Pad == 64

\* version = 'v13.0' (reportdemo.py:160)
version == "v13.0"
\* reportId = 'yourId' (reportdemo.py:12)
reportId == "yourId"
TokenURL == "https://api.incontact.com/InContactAuthorizationServer/Token"

\* Python's None, as returned by resp.json() for a JSON null
None == "<None>"
\* downloadReport has not been called yet
NotCalled == "<not called>"
\* `not fileURL` of line 115: true of None and of the empty string
Falsy(v) == v = None \/ v = ""

\* ------------------------------------------------------------------- codecs
\* str.encode() / bytes.decode('utf-8'): UTF-8 of one code point
UTF8EncodeChar(c) ==
    IF c < 128 THEN <<c>>
    ELSE IF c < 2048 THEN <<192 + (c \div 64), 128 + (c % 64)>>
    ELSE IF c < 65536 THEN <<224 + (c \div 4096), 128 + ((c \div 64) % 64), 128 + (c % 64)>>
    ELSE <<240 + (c \div 262144), 128 + ((c \div 4096) % 64),
           128 + ((c \div 64) % 64), 128 + (c % 64)>>

RECURSIVE UTF8Encode(_)
UTF8Encode(t) ==
    IF t = <<>> THEN <<>> ELSE UTF8EncodeChar(Head(t)) \o UTF8Encode(Tail(t))

IsCont(b) == b >= 128 /\ b <= 191

\* bytes.decode('utf-8') in strict mode: the text, or ok = FALSE for the
\* UnicodeDecodeError (stray continuation byte, truncated or overlong
\* sequence, surrogate, code point above U+10FFFF).
RECURSIVE UTF8Decode(_)
UTF8Decode(b) ==
    IF b = <<>> THEN [ok |-> TRUE, text |-> <<>>]
    ELSE LET b0 == b[1]
             n  == IF b0 < 128 THEN 1
                   ELSE IF b0 >= 194 /\ b0 <= 223 THEN 2
                   ELSE IF b0 >= 224 /\ b0 <= 239 THEN 3
                   ELSE IF b0 >= 240 /\ b0 <= 244 THEN 4
                   ELSE 0
         IN IF n = 0 \/ Len(b) < n THEN [ok |-> FALSE, text |-> <<>>]
            ELSE LET contOK == \A i \in 2..n : IsCont(b[i])
                     lo2 == IF b0 = 224 THEN 160 ELSE IF b0 = 240 THEN 144 ELSE 128
                     hi2 == IF b0 = 237 THEN 159 ELSE IF b0 = 244 THEN 143 ELSE 191
                     secondOK == n = 1 \/ (b[2] >= lo2 /\ b[2] <= hi2)
                     cp == IF n = 1 THEN b0
                           ELSE IF n = 2 THEN (b0 - 192) * 64 + (b[2] - 128)
                           ELSE IF n = 3 THEN (b0 - 224) * 4096 + (b[2] - 128) * 64 + (b[3] - 128)
                           ELSE (b0 - 240) * 262144 + (b[2] - 128) * 4096
                                + (b[3] - 128) * 64 + (b[4] - 128)
                     rest == UTF8Decode(SubSeq(b, n + 1, Len(b)))
                 IN IF contOK /\ secondOK /\ rest.ok
                    THEN [ok |-> TRUE, text |-> <<cp>> \o rest.text]
                    ELSE [ok |-> FALSE, text |-> <<>>]

\* base64.b64encode: three bytes to four symbols, '=' padding on the tail
RECURSIVE B64Encode(_)
B64Encode(b) ==
    IF b = <<>> THEN <<>>
    ELSE IF Len(b) = 1
         THEN <<b[1] \div 4, (b[1] % 4) * 16, Pad, Pad>>
    ELSE IF Len(b) = 2
         THEN <<b[1] \div 4, (b[1] % 4) * 16 + (b[2] \div 16), (b[2] % 16) * 4, Pad>>
    ELSE <<b[1] \div 4, (b[1] % 4) * 16 + (b[2] \div 16),
           (b[2] % 16) * 4 + (b[3] \div 64), b[3] % 64>>
         \o B64Encode(SubSeq(b, 4, Len(b)))

\* base64.b64decode(s) with validate=False (binascii.a2b_base64): symbols
\* outside the alphabet are skipped, decoding stops at a completed padding,
\* and a quad left open at the end is the binascii.Error.
\* quad = position in the current quad, left = bits carried over,
\* pads = consecutive '=' seen, out = bytes produced so far.
RECURSIVE B64Scan(_, _, _, _, _)
B64Scan(s, quad, left, pads, out) ==
    IF s = <<>> THEN [ok |-> quad = 0, bytes |-> out]
    ELSE LET ch == Head(s) IN
         IF ch = Pad
         THEN IF quad >= 2 /\ quad + pads + 1 >= 4
              THEN [ok |-> TRUE, bytes |-> out]
              ELSE B64Scan(Tail(s), quad, left, pads + 1, out)
         ELSE IF ch < 0 \/ ch > 63
         THEN B64Scan(Tail(s), quad, left, pads, out)
         ELSE IF quad = 0 THEN B64Scan(Tail(s), 1, ch, 0, out)
         ELSE IF quad = 1
              THEN B64Scan(Tail(s), 2, ch % 16, 0, Append(out, left * 4 + (ch \div 16)))
         ELSE IF quad = 2
              THEN B64Scan(Tail(s), 3, ch % 4, 0, Append(out, left * 16 + (ch \div 4)))
         ELSE B64Scan(Tail(s), 0, 0, 0, Append(out, left * 64 + ch))

B64Decode(s) == B64Scan(s, 0, 0, 0, <<>>)

\* ------------------------------------------------------------ configuration
\* app = 'yourApp' (reportdemo.py:10), as code points
app == <<121, 111, 117, 114, 65, 112, 112>>
\* vendor = 'yourVendor' (reportdemo.py:11)
vendor == <<121, 111, 117, 114, 86, 101, 110, 100, 111, 114>>
\* bu = 'yourBu' (reportdemo.py:13)
bu == <<121, 111, 117, 114, 66, 117>>

\* --------------------------------------------------- the remote service's answers
Endpoints == {"token", "start", "status", "file"}

\* HTTP status codes the service answers with
StatusCodes == {200, 404, 500}

\* only server errors raise
RaisesForServerError(status) == status >= 500 /\ status < 600

\* resp.raise_for_status(): HTTPError for a 4xx or 5xx status
RaisesForStatus(status) == status >= 400 /\ status < 600

IsSuccess(status) == status >= 200 /\ status < 300

Tokens == {"T1", "T2"}
BaseURIs == {"https://x/"}
JobIds == {"J1", "J2"}
Locations == {"https://x/f", "https://x/g"}

\* wellFormed = FALSE stands for a body resp.json() cannot parse or that
\* lacks the field the code subscripts: an exception either way.
TokenResponses ==
    [status : StatusCodes, wellFormed : BOOLEAN,
     resource_server_base_uri : BaseURIs, access_token : Tokens]

StartResponses == [status : StatusCodes, wellFormed : BOOLEAN, jobId : JobIds]

StatusResponses ==
    [status : StatusCodes, wellFormed : BOOLEAN,
     resultFileURL : Locations \cup {"", None}]

\* text payloads of the report: ',' 'a' newline, e-acute (2 bytes), euro sign (3 bytes)
TextChars == {10, 97, 233, 8364}

RECURSIVE SeqsUpTo(_, _)
SeqsUpTo(S, n) ==
    IF n = 0 THEN {<<>>}
    ELSE LET shorter == SeqsUpTo(S, n - 1)
         IN shorter \cup {Append(t, c) : t \in shorter, c \in S}

\* "a,b\n1,2"
ScenarioText == <<97, 44, 98, 10, 49, 44, 50>>

Texts == SeqsUpTo(TextChars, MaxTextLen) \cup {ScenarioText}

\* payloads that do not decode: one data symbol ("Y"), missing padding
\* ("YQ"), and base64 of the lone byte 0xE9, which is not UTF-8
BadPayloads == {<<24>>, <<24, 16>>, B64Encode(<<233>>)}

Payloads == {B64Encode(UTF8Encode(t)) : t \in Texts} \cup BadPayloads

FileResponses == [status : StatusCodes, wellFormed : BOOLEAN, file : Payloads]

NoFile == [exists |-> FALSE, text |-> <<>>]
\* a report.csv left by an earlier run: "old"
OldFiles == {NoFile, [exists |-> TRUE, text |-> <<111, 108, 100>>]}

\* ------------------------------------------------------------------- state
VARIABLES
    pc,         \* position of the single thread of control
    error,      \* the exception that ended the run, "" if none
    authCode,   \* self.authCode
    json,       \* getReport: the token response body
    reportURL,  \* getReport: reportURL
    token,      \* getReport: token
    jobId,      \* getReport: jobId
    fileURL,    \* getFileURL: fileURL
    numTries,   \* getFileURL: numTries
    url,        \* getReport: url
    b64bytes,   \* getReport: b64bytes
    file,       \* the output file on disk
    fileOpen,   \* getReport: file is open
    log,        \* requests issued so far, in order
    found,      \* per status check: did it return a non-empty location
    sleeps,     \* number of time.sleep calls
    slept,      \* total time slept
    badStatus,  \* endpoints that answered with a non-2xx status
    served,     \* the resultFileURL of the latest well-formed status body
    downloadArg, \* the url downloadReport was called with
    oldFile     \* the output file as it was before the run

vars == <<pc, error, authCode, json, reportURL, token, jobId, fileURL, numTries,
          url, b64bytes, file, fileOpen, log, found, sleeps, slept, badStatus, served,
          downloadArg, oldFile>>

\* requests to one endpoint
Requests(ep) == SelectSeq(log, LAMBDA r : r.ep = ep)
Count(ep) == Len(Requests(ep))

\* CustomReport.__init__: auth.encode() then base64.b64encode
Constructor(a, v, b) == B64Encode(UTF8Encode(a \o <<64>> \o v \o <<58>> \o b))

Init ==
    /\ pc = "getToken"
    /\ error = ""
    /\ authCode = Constructor(app, vendor, bu)
    /\ json = [resource_server_base_uri |-> "", access_token |-> ""]
    /\ reportURL = ""
    /\ token = ""
    /\ jobId = ""
    /\ fileURL = ""
    /\ numTries = 0
    /\ url = ""
    /\ b64bytes = <<>>
    /\ oldFile \in OldFiles
    /\ file = oldFile
    /\ fileOpen = FALSE
    /\ log = <<>>
    /\ found = <<>>
    /\ sleeps = 0
    /\ slept = 0
    /\ badStatus = {}
    /\ served = ""
    /\ downloadArg = NotCalled

\* an exception propagates out of getReport: the program ends
Raise(e) == pc' = "aborted" /\ error' = e

NoteStatus(ep, status) ==
    badStatus' = IF IsSuccess(status) THEN badStatus ELSE badStatus \cup {ep}

\* one HTTP request as it leaves the client: the endpoint, the URL, and the
\* Authorization header (basic for the token grant, bearer for the others)
Request(ep, u, basic, bearer) == [ep |-> ep, url |-> u, basic |-> basic, bearer |-> bearer]

\* ----------------------------------------------------------------- actions
\* getToken that keeps the prefixed header value in self.authCode
\* (self.authCode = b'basic ' + self.authCode): 'basic ' is 98 97 115 105 99 32
GetTokenRewritesAuthCode ==
    /\ pc = "getToken"
    /\ authCode' = <<98, 97, 115, 105, 99, 32>> \o authCode
    /\ \E resp \in TokenResponses :
         /\ log' = Append(log, Request("token", TokenURL, authCode', ""))
         /\ NoteStatus("token", resp.status)
         /\ IF RaisesForStatus(resp.status)
            THEN Raise("HTTPError") /\ UNCHANGED <<json, reportURL, token>>
            ELSE IF ~resp.wellFormed
            THEN Raise("BodyError") /\ UNCHANGED <<json, reportURL, token>>
            ELSE /\ json' = [resource_server_base_uri |-> resp.resource_server_base_uri,
                             access_token |-> resp.access_token]
                 /\ reportURL' = resp.resource_server_base_uri \o "services/" \o version
                                 \o "/report-jobs/"
                 /\ token' = resp.access_token
                 /\ pc' = "startReportJob"
                 /\ error' = error
    /\ UNCHANGED <<jobId, fileURL, numTries, url, b64bytes, file, fileOpen,
                   found, sleeps, slept, served, downloadArg, oldFile>>

\* getToken (56-62) and the unpacking of its result in getReport (162-164)
GetToken ==
    /\ pc = "getToken"
    /\ \E resp \in TokenResponses :
         /\ log' = Append(log, Request("token", TokenURL, authCode, ""))
         /\ NoteStatus("token", resp.status)
         /\ IF RaisesForStatus(resp.status)
            THEN Raise("HTTPError") /\ UNCHANGED <<json, reportURL, token>>
            ELSE IF ~resp.wellFormed
            THEN Raise("BodyError") /\ UNCHANGED <<json, reportURL, token>>
            ELSE /\ json' = [resource_server_base_uri |-> resp.resource_server_base_uri,
                             access_token |-> resp.access_token]
                 /\ reportURL' = resp.resource_server_base_uri \o "services/" \o version
                                 \o "/report-jobs/"
                 /\ token' = resp.access_token
                 /\ pc' = "startReportJob"
                 /\ error' = error
    /\ UNCHANGED <<authCode, jobId, fileURL, numTries, url, b64bytes, file, fileOpen,
                   found, sleeps, slept, served,
                   downloadArg, oldFile>>

\* startReportJob that never posts the job: the report id is handed on as if
\* it were the job id
StartReportJobSkipped ==
    /\ pc = "startReportJob"
    /\ jobId' = reportId
    /\ pc' = "getFileURL"
    /\ UNCHANGED <<error, authCode, json, reportURL, token, fileURL, numTries, url,
                   b64bytes, file, fileOpen, log, found, sleeps, slept, badStatus,
                   served, downloadArg, oldFile>>

\* startReportJob without line 90: the status of the answer is not looked at
StartReportJobNoRaise ==
    /\ pc = "startReportJob"
    /\ \E resp \in StartResponses :
         /\ log' = Append(log, Request("start", reportURL \o reportId, <<>>, token))
         /\ NoteStatus("start", resp.status)
         /\ IF ~resp.wellFormed
            THEN Raise("BodyError") /\ UNCHANGED jobId
            ELSE jobId' = resp.jobId /\ pc' = "getFileURL" /\ error' = error
    /\ UNCHANGED <<authCode, json, reportURL, token, fileURL, numTries, url, b64bytes,
                   file, fileOpen, found, sleeps, slept, served, downloadArg, oldFile>>

\* startReportJob (79-91), called at 165
StartReportJob ==
    /\ pc = "startReportJob"
    /\ \E resp \in StartResponses :
         /\ log' = Append(log, Request("start", reportURL \o reportId, <<>>, token))
         /\ NoteStatus("start", resp.status)
         /\ IF RaisesForStatus(resp.status)
            THEN Raise("HTTPError") /\ UNCHANGED jobId
            ELSE IF ~resp.wellFormed
            THEN Raise("BodyError") /\ UNCHANGED jobId
            ELSE jobId' = resp.jobId /\ pc' = "getFileURL" /\ error' = error
    /\ UNCHANGED <<authCode, json, reportURL, token, fileURL, numTries, url, b64bytes,
                   file, fileOpen, found, sleeps, slept, served,
                   downloadArg, oldFile>>

\* a status check whose header is built without the token
StatusCheckNoToken(resp) ==
    /\ log' = Append(log, Request("status", reportURL \o jobId, <<>>, ""))
    /\ NoteStatus("status", resp.status)
    /\ IF ~resp.wellFormed
       THEN Raise("BodyError") /\ UNCHANGED <<fileURL, found, served>>
       ELSE /\ fileURL' = resp.resultFileURL
            /\ served' = resp.resultFileURL
            /\ found' = Append(found, ~Falsy(resp.resultFileURL))
            /\ error' = error

\* one status check: requests.get(url, headers=header) and
\* resp.json()['jobResult']['resultFileURL'] (111-112 and 118-119).
\* There is no raise_for_status here: the HTTP status is not looked at.
StatusCheck(resp) ==
    /\ log' = Append(log, Request("status", reportURL \o jobId, <<>>, token))
    /\ NoteStatus("status", resp.status)
    /\ IF ~resp.wellFormed
       THEN Raise("BodyError") /\ UNCHANGED <<fileURL, found, served>>
       ELSE /\ fileURL' = resp.resultFileURL
            /\ served' = resp.resultFileURL
            /\ found' = Append(found, ~Falsy(resp.resultFileURL))
            /\ error' = error

\* getFileURL up to the loop (109-113)
GetFileURLFirst ==
    /\ pc = "getFileURL"
    /\ \E resp \in StatusResponses :
         /\ StatusCheck(resp)
         /\ IF resp.wellFormed
            THEN numTries' = NumTries /\ pc' = "while"
            ELSE UNCHANGED numTries
    /\ UNCHANGED <<authCode, json, reportURL, token, jobId, url, b64bytes, file,
                   fileOpen, sleeps, slept, downloadArg, oldFile>>

\* the loop condition with the budget test off by one: the last retry is never made
LoopGuardEarly(f, n) == Falsy(f) /\ n > 1

\* the loop condition with `or` for `and`: polling goes on while budget remains
LoopGuardOr(f, n) == Falsy(f) \/ n > 0

\* while (not fileURL and numTries > 0) (115)
LoopGuard(f, n) == Falsy(f) /\ n > 0

\* the loop is entered: print and time.sleep(60) (116-117)
LoopSleep ==
    /\ pc = "while"
    /\ LoopGuard(fileURL, numTries)
    /\ sleeps' = sleeps + 1
    /\ slept' = slept + SleepInterval
    /\ pc' = "slept"
    /\ UNCHANGED <<error, authCode, json, reportURL, token, jobId, fileURL, numTries,
                   url, b64bytes, file, fileOpen, log, found, badStatus, served,
                   downloadArg, oldFile>>

\* the next check of the loop body (118-119)
LoopCheck ==
    /\ pc = "slept"
    /\ \E resp \in StatusResponses :
         /\ StatusCheck(resp)
         /\ IF resp.wellFormed THEN pc' = "checked" ELSE TRUE
    /\ UNCHANGED <<authCode, json, reportURL, token, jobId, numTries, url, b64bytes, file,
                   fileOpen, sleeps, slept, downloadArg, oldFile>>

\* numTries -= 2: the budget is spent twice as fast
LoopDecrementTwice ==
    /\ pc = "checked"
    /\ numTries' = numTries - 2
    /\ pc' = "while"
    /\ UNCHANGED <<error, authCode, json, reportURL, token, jobId, fileURL, url, b64bytes,
                   file, fileOpen, log, found, sleeps, slept, badStatus, served,
                   downloadArg, oldFile>>

\* numTries -= 1 (120), then back to the loop test
LoopDecrement ==
    /\ pc = "checked"
    /\ numTries' = numTries - 1
    /\ pc' = "while"
    /\ UNCHANGED <<error, authCode, json, reportURL, token, jobId, fileURL, url, b64bytes,
                   file, fileOpen, log, found, sleeps, slept, badStatus, served,
                   downloadArg, oldFile>>

\* the loop ends, and a spent budget is taken for "not ready" whatever the
\* last check found
GetFileURLReturnSpent ==
    /\ pc = "while"
    /\ ~LoopGuard(fileURL, numTries)
    /\ url' = IF numTries = 0 THEN "" ELSE fileURL
    /\ pc' = "downloadReport"
    /\ UNCHANGED <<error, authCode, json, reportURL, token, jobId, fileURL, numTries,
                   b64bytes, file, fileOpen, log, found, sleeps, slept, badStatus, served,
                   downloadArg, oldFile>>

\* the loop ends, but running out of budget is raised as an error
GetFileURLReturnRaises ==
    /\ pc = "while"
    /\ ~LoopGuard(fileURL, numTries)
    /\ IF Falsy(fileURL)
       THEN Raise("TimeoutError") /\ UNCHANGED url
       ELSE url' = fileURL /\ pc' = "downloadReport" /\ error' = error
    /\ UNCHANGED <<authCode, json, reportURL, token, jobId, fileURL, numTries,
                   b64bytes, file, fileOpen, log, found, sleeps, slept, badStatus, served,
                   downloadArg, oldFile>>

\* the loop ends: return fileURL (122), assigned to url at 166
GetFileURLReturn ==
    /\ pc = "while"
    /\ ~LoopGuard(fileURL, numTries)
    /\ url' = fileURL
    /\ pc' = "downloadReport"
    /\ UNCHANGED <<error, authCode, json, reportURL, token, jobId, fileURL, numTries,
                   b64bytes, file, fileOpen, log, found, sleeps, slept, badStatus, served,
                   downloadArg, oldFile>>

\* downloadReport (138-141), called at 167.  With url = None the string
\* concatenation of 138 is a TypeError; with url = '' requests.get raises
\* MissingSchema while preparing the request: no request leaves the client.
\* There is no raise_for_status here either.
DownloadReport ==
    /\ pc = "downloadReport"
    /\ downloadArg' = url
    /\ IF url = None
       THEN Raise("TypeError") /\ UNCHANGED <<log, badStatus, b64bytes>>
       ELSE IF url = ""
       THEN Raise("MissingSchema") /\ UNCHANGED <<log, badStatus, b64bytes>>
       ELSE \E resp \in FileResponses :
              /\ log' = Append(log, Request("file", url, <<>>, token))
              /\ NoteStatus("file", resp.status)
              /\ IF ~resp.wellFormed
                 THEN Raise("BodyError") /\ UNCHANGED b64bytes
                 ELSE b64bytes' = resp.file /\ pc' = "open" /\ error' = error
    /\ UNCHANGED <<authCode, json, reportURL, token, jobId, fileURL, numTries, url,
                   file, fileOpen, found, sleeps, slept, served, oldFile>>

\* open(target, 'a'): what the file held before is kept
OpenFileAppend ==
    /\ pc = "open"
    /\ file' = [exists |-> TRUE, text |-> file.text]
    /\ fileOpen' = TRUE
    /\ pc' = "write"
    /\ UNCHANGED <<error, authCode, json, reportURL, token, jobId, fileURL, numTries,
                   url, b64bytes, log, found, sleeps, slept, badStatus, served,
                   downloadArg, oldFile>>

\* file = open(target, 'w') (168): creates the file or truncates it
OpenFile ==
    /\ pc = "open"
    /\ file' = [exists |-> TRUE, text |-> <<>>]
    /\ fileOpen' = TRUE
    /\ pc' = "write"
    /\ UNCHANGED <<error, authCode, json, reportURL, token, jobId, fileURL, numTries,
                   url, b64bytes, log, found, sleeps, slept, badStatus, served,
                   downloadArg, oldFile>>

\* decode('latin-1') for decode('utf-8'): every byte is taken for a character
DecodeLatin1(b) ==
    LET raw == B64Decode(b) IN
    IF ~raw.ok THEN [ok |-> FALSE, error |-> "binascii.Error", text |-> <<>>]
    ELSE [ok |-> TRUE, error |-> "", text |-> raw.bytes]

\* base64.b64decode(b64bytes).decode('utf-8') (169): the text, or the
\* exception of whichever conversion fails
Decode(b) ==
    LET raw == B64Decode(b) IN
    IF ~raw.ok THEN [ok |-> FALSE, error |-> "binascii.Error", text |-> <<>>]
    ELSE LET t == UTF8Decode(raw.bytes) IN
         IF ~t.ok THEN [ok |-> FALSE, error |-> "UnicodeDecodeError", text |-> <<>>]
         ELSE [ok |-> TRUE, error |-> "", text |-> t.text]

\* file.write(...) (169): the argument is decoded first, then written
WriteFile ==
    /\ pc = "write"
    /\ LET d == Decode(b64bytes) IN
       IF ~d.ok
       THEN Raise(d.error) /\ UNCHANGED file
       ELSE file' = [file EXCEPT !.text = @ \o d.text] /\ pc' = "close" /\ error' = error
    /\ UNCHANGED <<authCode, json, reportURL, token, jobId, fileURL, numTries, url,
                   b64bytes, fileOpen, log, found, sleeps, slept, badStatus, served,
                   downloadArg, oldFile>>

\* file.close() and print('Job Complete') (170-171)
CloseFile ==
    /\ pc = "close"
    /\ fileOpen' = FALSE
    /\ pc' = "done"
    /\ UNCHANGED <<error, authCode, json, reportURL, token, jobId, fileURL, numTries,
                   url, b64bytes, file, log, found, sleeps, slept, badStatus, served,
                   downloadArg, oldFile>>

Next ==
    \/ GetToken
    \/ StartReportJob
    \/ GetFileURLFirst
    \/ LoopSleep
    \/ LoopCheck
    \/ LoopDecrement
    \/ GetFileURLReturn
    \/ DownloadReport
    \/ OpenFile
    \/ WriteFile
    \/ CloseFile

Spec == Init /\ [][Next]_vars

\* the steps of getFileURL (109-122)
PollStep == GetFileURLFirst \/ LoopSleep \/ LoopCheck \/ LoopDecrement \/ GetFileURLReturn

\* inside getFileURL the next statement is eventually executed: the program
\* is one sequential thread, the requests are answered and time.sleep returns
FairSpec == Spec /\ WF_vars(PollStep)

TypeOK ==
    /\ pc \in {"getToken", "startReportJob", "getFileURL", "while", "slept", "checked",
               "downloadReport", "open", "write", "close", "done", "aborted"}
    /\ numTries \in 0..NumTries
    /\ fileURL \in Locations \cup {"", None}
    /\ badStatus \subseteq Endpoints
    /\ sleeps \in Nat

\* ------------------------------------------------------------------ claims
\* position of an endpoint in the pipeline
StageRank(ep) ==
    IF ep = "token" THEN 1 ELSE IF ep = "start" THEN 2 ELSE IF ep = "status" THEN 3 ELSE 4

\* C1: the requests are issued in the order token grant, job start, job
\* status (one or more), file fetch: the log starts with the token grant,
\* each request is of the same stage as the one before it or of the next
\* stage (no reordering, no skipped stage, nothing of an earlier stage after a
\* later one), only the status stage repeats, and a run that completes with
\* every answer successful has issued all four stages.
C1_CallOrder ==
    /\ Len(log) > 0 => log[1].ep = "token"
    /\ \A i \in 1..(Len(log) - 1) :
         /\ StageRank(log[i + 1].ep) >= StageRank(log[i].ep)
         /\ StageRank(log[i + 1].ep) <= StageRank(log[i].ep) + 1
         /\ log[i + 1].ep = log[i].ep => log[i].ep = "status"
    /\ (pc = "done" /\ badStatus = {}) =>
         /\ Count("token") = 1 /\ Count("start") = 1
         /\ Count("status") >= 1 /\ Count("file") = 1
         /\ log[Len(log)].ep = "file"

\* a completed run, all answers successful, that polled three times
C1_Witness == pc = "done" /\ badStatus = {} /\ Count("status") = 3

\* getFileURL has returned to getReport
Returned == pc = "downloadReport" \/ downloadArg # NotCalled

\* the first k status checks found no location and check k+1 found one
ReadyAfter(k) ==
    /\ Len(found) >= k + 1
    /\ \A i \in 1..k : ~found[i]
    /\ found[k + 1]

\* every status check so far found no location
NeverReady == \A i \in 1..Len(found) : ~found[i]

\* C2: for every k in 0..9, if the status endpoint returns an empty location
\* on the first k checks and a non-empty one on check k+1, getFileURL makes
\* exactly k+1 status checks and k sleeps (none after the non-empty check)
\* and returns that location.
C2_ReadyAfterK ==
    \A k \in 0..9 :
        ReadyAfter(k) =>
            /\ Len(found) = k + 1
            /\ Count("status") = k + 1
            /\ sleeps = k
            /\ pc # "slept"
            /\ Returned => (url = served /\ ~Falsy(url))

\* getFileURL has returned the location that came with the tenth check
C2_Witness == ReadyAfter(9) /\ Returned /\ url = "https://x/g" /\ sleeps = 9

\* C3 as claimed: on an endpoint that always answers with an empty location
\* getFileURL has made exactly 10 status checks when it returns.
C3_TenChecks == (Returned /\ NeverReady) => Count("status") = 10

\* C3, amended: on an endpoint that always answers with an empty location
\* getFileURL has made exactly 11 status checks when it returns, the first
\* check and ten retries.
C3_ElevenChecks ==
    (Returned /\ NeverReady) => (Count("status") = 11 /\ Len(found) = 11 /\ sleeps = 10)

\* getFileURL has returned without ever seeing a location
C3_Witness == pc = "downloadReport" /\ NeverReady /\ Falsy(url) /\ badStatus = {}

\* C4: a non-2xx answer from any of the four endpoints ends the run before a
\* later stage executes, and the output file is neither created nor modified.
C4_Non2xxIsFatal == badStatus # {} => (pc = "aborted" /\ file = oldFile)

\* C5: downloadReport is never called with an empty or absent result URL, and
\* a file-fetch request is issued only after the poller obtained a location.
C5_DownloadNeedsLocation ==
    /\ downloadArg # NotCalled => ~Falsy(downloadArg)
    /\ Count("file") > 0 => (\E i \in 1..Len(found) : found[i])

\* C6: when the retry budget is exhausted and every status body was well
\* formed with an empty location, getFileURL returns an empty or absent value
\* and raises nothing: the step taken from the exhausted loop is the return,
\* and a return that never saw a location hands back an empty value with no
\* error.
C6_SoftTimeout ==
    /\ [][(pc = "while" /\ numTries = 0 /\ NeverReady) =>
            (pc' = "downloadReport" /\ Falsy(url') /\ error' = "")]_vars
    /\ []((pc = "downloadReport" /\ NeverReady) =>
            (Falsy(url) /\ error = "" /\ numTries = 0))

\* the budget is used up and getFileURL has handed back an empty value
C6_Witness ==
    pc = "downloadReport" /\ NeverReady /\ Len(found) = 11 /\ numTries = 0 /\ url = ""

\* C7: the poller sleeps at most 10 times, each sleep is 60 time units, a
\* sleep happens only directly after a status check that returned an empty
\* location, and the total time slept is at most 600 units.
C7_SleepBudget ==
    /\ [](sleeps <= 10 /\ slept = 60 * sleeps /\ slept <= 600)
    /\ [][sleeps' # sleeps =>
            /\ sleeps' = sleeps + 1
            /\ slept' = slept + 60
            /\ log # <<>> /\ log[Len(log)].ep = "status"
            /\ Len(found) = Count("status") /\ ~found[Len(found)]
            /\ Falsy(served)]_vars

\* the tenth sleep has been taken
C7_Witness == sleeps = 10 /\ slept = 600 /\ pc = "slept"

\* the file-fetch requests
FileRequests == Requests("file")

\* C8: when all four endpoints succeed and the job becomes ready within the
\* budget, the file fetch goes to exactly the location of the last status
\* check and the finished output file holds the base64-decoded text of the
\* payload served: nothing added, dropped or left over from an earlier file.
C8_FetchAndWrite ==
    (pc = "done" /\ badStatus = {}) =>
        /\ Len(FileRequests) = 1
        /\ FileRequests[1].url = served
        /\ found[Len(found)]
        /\ B64Decode(b64bytes).ok
        /\ UTF8Decode(B64Decode(b64bytes).bytes).ok
        /\ file = [exists |-> TRUE, text |-> UTF8Decode(B64Decode(b64bytes).bytes).text]
        /\ ~fileOpen

\* a completed run over an earlier report.csv, ready on the second check
C8_Witness ==
    /\ pc = "done" /\ badStatus = {} /\ oldFile.exists /\ Len(found) = 2
    /\ Len(b64bytes) > 0 /\ file.text # oldFile.text

\* C9: round trip: for every text P, when the file endpoint serves
\* base64(utf-8(P)) the download, decode and write steps leave an output file
\* whose contents are exactly P.
C9_RoundTrip ==
    \A P \in Texts :
        (pc = "done" /\ b64bytes = B64Encode(UTF8Encode(P))) =>
            file = [exists |-> TRUE, text |-> P]

\* the run has written a text with a two-byte and a three-byte character
C9_Witness ==
    pc = "done" /\ b64bytes = B64Encode(UTF8Encode(<<233, 8364>>)) /\ file.text = <<233, 8364>>

ExpectedAuthCode ==
    <<30, 22, 61, 53, 28, 36, 5, 48, 28, 4, 1, 57, 27, 55, 21, 50, 21, 38,
      21, 46, 25, 6, 61, 50, 14, 39, 37, 47, 29, 23, 9, 2, 29, 16, 64, 64>>

\* C12: authCode is computed once, in the constructor, and no method
\* changes it: no step of getToken, startReportJob, getFileURL,
\* downloadReport or getReport alters it, it stays the base64 of
\* "yourApp@yourVendor:yourBu", and every token-grant request carries it.
C12_AuthCodeFrame ==
    /\ [][authCode' = authCode]_vars
    /\ [](authCode = ExpectedAuthCode)
    /\ [](\A i \in 1..Len(log) : log[i].ep = "token" => log[i].basic = ExpectedAuthCode)

\* a whole run has gone by since the token grant carried the blob
C12_Witness ==
    pc = "done" /\ Count("token") = 1 /\ log[1].basic = authCode /\ sleeps > 0

\* getFileURL has returned a location
Ready == pc = "downloadReport" /\ ~Falsy(url)

\* getFileURL has returned an empty value
Exhausted == pc = "downloadReport" /\ Falsy(url)

\* C13: getFileURL always terminates (a malformed status body ends it with
\* the exception; otherwise it returns), and it returns in exactly one of two
\* ways: ready, with the location of the last check, or exhausted, with an
\* empty value, the budget consumed and no location ever seen.  After the
\* return there is no further status check or sleep, and a wait is entered
\* only from the loop test after a check that found no location while budget
\* remained.
C13_PollerTerminates ==
    /\ (pc = "getFileURL") ~>
           (pc = "downloadReport" \/ (pc = "aborted" /\ error = "BodyError"))
    /\ [](Ready => (found[Len(found)] /\ url = served))
    /\ [](Exhausted => (numTries = 0 /\ NeverReady /\ sleeps = 10))
    /\ [][Returned => (Returned' /\ sleeps' = sleeps /\ found' = found
                       /\ Requests("status")' = Requests("status"))]_vars
    /\ [][(pc' = "slept" /\ pc # "slept") =>
            (pc = "while" /\ numTries > 0 /\ Falsy(fileURL) /\ ~found[Len(found)])]_vars

\* getFileURL has given up with the absent value after the last retry
C13_Witness == Exhausted /\ url = None /\ numTries = 0 /\ sleeps = 10 /\ Len(found) = 11

\* C14: the token grant is issued exactly once per run, however many status
\* checks and sleeps occur, and the job start, every status check and the
\* file fetch carry the access token that grant returned.
C14_OneTokenPerRun ==
    /\ Count("token") <= 1
    /\ pc # "getToken" => (Count("token") = 1 /\ log[1].ep = "token")
    /\ \A i \in 1..Len(log) :
         log[i].ep # "token" =>
             (log[i].bearer = json.access_token /\ log[i].bearer \in Tokens)

\* a completed run that polled four times with the second token
C14_Witness ==
    pc = "done" /\ json.access_token = "T2" /\ Count("status") = 4 /\ sleeps = 3

\* C15: every sleep is followed by one more status check before getFileURL
\* returns, so the value returned is that of the most recent check; with ten
\* empty checks and a location on the eleventh, that location is returned.
C15_CheckAfterEverySleep ==
    /\ [][pc = "slept" =>
            (pc' \in {"checked", "aborted"}
             /\ Len(Requests("status")') = Count("status") + 1)]_vars
    /\ [](Returned => (url = served /\ Count("status") = sleeps + 1))
    /\ []((ReadyAfter(10) /\ Returned) => (~Falsy(url) /\ url = served))

\* the location came with the eleventh check and was returned
C15_Witness ==
    ReadyAfter(10) /\ pc = "downloadReport" /\ url = "https://x/f" /\ numTries = 0

\* the decoding of line 169 failed
DecodeFailed == error \in {"binascii.Error", "UnicodeDecodeError"}

\* C16: when the payload does not decode the run aborts with the output file
\* neither created nor modified: the file is opened only once the payload
\* has been decoded.
C16_DecodeFailureLeavesFile ==
    /\ DecodeFailed => (pc = "aborted" /\ file = oldFile)
    /\ fileOpen => Decode(b64bytes).ok

\* execution is inside getFileURL, after the initial check
InPoller == pc \in {"while", "slept", "checked"}

\* C17 as claimed: inside getFileURL after the initial check,
\* 0 <= numTries <= 10, the status checks made so far number
\* 1 + (10 - numTries), and the sleeps number 10 - numTries, or one more only
\* between a sleep and its following check.
C17_CountersAsClaimed ==
    InPoller =>
        /\ numTries >= 0 /\ numTries <= 10
        /\ Count("status") = 1 + (10 - numTries)
        /\ \/ sleeps = 10 - numTries
           \/ (pc = "slept" /\ sleeps = 10 - numTries + 1)

\* C17, amended: inside getFileURL after the initial check,
\* 0 <= numTries <= 10; the status checks made so far number
\* 1 + (10 - numTries), and one more between a check of the loop and the
\* decrement that follows it; the sleeps number 10 - numTries, and one more
\* from a sleep until the decrement that follows its check.
C17_Counters ==
    InPoller =>
        /\ numTries >= 0 /\ numTries <= 10
        /\ Count("status") = 1 + (10 - numTries) + (IF pc = "checked" THEN 1 ELSE 0)
        /\ Len(found) = Count("status")
        /\ sleeps = 10 - numTries + (IF pc \in {"slept", "checked"} THEN 1 ELSE 0)

\* the fourth retry has been checked and not yet counted
C17_Witness == pc = "checked" /\ numTries = 7 /\ sleeps = 4 /\ Count("status") = 5

====
